---- MODULE Spec2Model ----
(***************************************************************************)
(* Viewshed engines of backend/app/viewshed.py: the baseline line-of-sight *)
(* engine, the radial sweep engine, their shared validation, sampling and  *)
(* curvature primitives, and the majority-filter smoothing of a mask.      *)
(*                                                                         *)
(* Numbers.  The code computes in double precision; the model computes the *)
(* same expressions exactly, over rationals held as integers:              *)
(*   - elevations and cell sizes are whole metres, observer heights are    *)
(*     tenths of a metre (so that 1.7 m is the height 17);                 *)
(*   - a sample position obs + d * step / steps is held as the numerator   *)
(*     d * step over the denominator steps;                                *)
(*   - a curvature drop distance^2 / (2 * EARTH_RADIUS_M) is held as its   *)
(*     numerator distance^2 over the denominator 2 * EARTH_RADIUS_M;       *)
(*   - an elevation angle atan2(y, x), x > 0, is held as the pair it is    *)
(*     computed from; atan2 is strictly increasing in y / x, so angles are *)
(*     compared through their slopes.                                      *)
(* Rounding of the floating-point operations is not modelled.              *)
(***************************************************************************)
EXTENDS Integers, Sequences, FiniteSets, TLC

\* viewshed.py:7
EARTH_RADIUS_M == 6371000

\* float("nan"): a value outside every elevation the model draws.
NaN == -1000000

\* math.isnan
IsNaN(x) == x = NaN

\* abs
Abs(x) == IF x < 0 THEN -x ELSE x

\* min / max of two numbers
Min2(a, b) == IF a < b THEN a ELSE b

Max2(a, b) == IF a > b THEN a ELSE b

\* math.gcd of two non-negative integers
RECURSIVE Gcd(_, _)
Gcd(a, b) == IF b = 0 THEN a ELSE Gcd(b, a % b)

\* metres -> tenths of a metre (the unit of observer heights)
Tenths(m) == 10 * m

\* m * x > y and m * x >= y for a large positive m, without forming m * x
\* (\div rounds toward minus infinity).
MulGT(m, x, y) == x > (y \div m)

MulGE(m, x, y) == x >= -((-y) \div m)

(***************************************************************************)
(* Grids.  A grid is a function from its cells <<r, c>> to an elevation or *)
(* NaN; a mask is a function from the same cells to BOOLEAN.               *)
(***************************************************************************)
CellsOf(rows, cols) == (0 .. rows - 1) \X (0 .. cols - 1)

\* The k-th cell (k = 0, 1, ...) of the row-major scan
\* "for r in range(rows): for c in range(cols)".
ScanCell(k, cols) == <<k \div cols, k % cols>>

(***************************************************************************)
(* _validate_inputs: the first failing check, or "none".                   *)
(***************************************************************************)
ValidateInputs_boundsFirst(ndim, rows, cols, observer_rc, observer_height, cell_size) ==
  IF ndim # 2 THEN "ValueError: DEM must be a 2D array."
  ELSE IF ~(0 <= observer_rc[1] /\ observer_rc[1] < rows /\ 0 <= observer_rc[2] /\ observer_rc[2] < cols)
    THEN "IndexError: Observer index out of bounds."
  ELSE IF cell_size <= 0 THEN "ValueError: cell_size_m must be positive."
  ELSE IF observer_height < 0 THEN "ValueError: observer_height_m must be non-negative."
  ELSE "none"

ValidateInputs(ndim, rows, cols, observer_rc, observer_height, cell_size) ==
  IF ndim # 2 THEN "ValueError: DEM must be a 2D array."
  ELSE IF cell_size <= 0 THEN "ValueError: cell_size_m must be positive."
  ELSE IF observer_height < 0 THEN "ValueError: observer_height_m must be non-negative."
  ELSE IF ~(0 <= observer_rc[1] /\ observer_rc[1] < rows /\ 0 <= observer_rc[2] /\ observer_rc[2] < cols)
    THEN "IndexError: Observer index out of bounds."
  ELSE "none"

(***************************************************************************)
(* _curvature_drop(distance) = distance^2 / (2 * EARTH_RADIUS_M), as the   *)
(* numerator over the denominator 2 * EARTH_RADIUS_M; the argument is the  *)
(* squared distance.                                                       *)
(***************************************************************************)
CurvatureDrop_raise(distance_sq) == -distance_sq

CurvatureDrop(distance_sq) == distance_sq

TwoR == 2 * EARTH_RADIUS_M

(***************************************************************************)
(* _bilinear_sample(dem, row, col) at row = rowNum / den, col = colNum /   *)
(* den.  The result is NaN, or the sampled elevation as a numerator over   *)
(* den * den.                                                              *)
(***************************************************************************)
BilinearSample_noClamp(grid, rows, cols, rowNum, colNum, den) ==
  LET r0 == rowNum \div den
      c0 == colNum \div den
      r1 == r0 + 1
      c1 == c0 + 1
      dr == rowNum % den
      dc == colNum % den
  IN  IF r0 < 0 \/ c0 < 0 \/ r1 >= rows \/ c1 >= cols
        THEN [nan |-> TRUE, num |-> 0]
      ELSE LET e00 == grid[<<r0, c0>>]
               e10 == grid[<<r1, c0>>]
               e01 == grid[<<r0, c1>>]
               e11 == grid[<<r1, c1>>]
           IN  IF \E v \in {e00, e10, e01, e11} : IsNaN(v)
                 THEN [nan |-> TRUE, num |-> 0]
               ELSE [nan |-> FALSE,
                     num |-> e00 * (den - dr) * (den - dc)
                             + e10 * dr * (den - dc)
                             + e01 * (den - dr) * dc
                             + e11 * dr * dc]

BilinearSample(grid, rows, cols, rowNum, colNum, den) ==
  LET r0 == rowNum \div den
      c0 == colNum \div den
      r1 == Min2(r0 + 1, rows - 1)
      c1 == Min2(c0 + 1, cols - 1)
      dr == rowNum % den
      dc == colNum % den
  IN  IF r0 < 0 \/ c0 < 0 \/ r0 >= rows \/ c0 >= cols
        THEN [nan |-> TRUE, num |-> 0]
      ELSE LET e00 == grid[<<r0, c0>>]
               e10 == grid[<<r1, c0>>]
               e01 == grid[<<r0, c1>>]
               e11 == grid[<<r1, c1>>]
           IN  IF \E v \in {e00, e10, e01, e11} : IsNaN(v)
                 THEN [nan |-> TRUE, num |-> 0]
               ELSE [nan |-> FALSE,
                     num |-> e00 * (den - dr) * (den - dc)
                             + e10 * dr * (den - dc)
                             + e01 * (den - dr) * dc
                             + e11 * dr * dc]

(***************************************************************************)
(* One sample of _line_of_sight's loop (lines 229-243): TRUE when the      *)
(* sample at t = step / steps blocks the line ("return False").            *)
(*   terrain  = num / steps^2            [- drop(total * t) when curved]   *)
(*   expected = eye + (target_effective - eye) * t                         *)
(* with eye in tenths.  Multiplying terrain > expected by 10 * steps^2     *)
(* (and by 2R when curved) gives, with                                     *)
(*   X = 10 * num - steps^2 * eye10 - (10 * target - eye10) * step * steps *)
(* the test X > 0 when flat and                                            *)
(*   2R * X > 10 * (drop(total_sq * step^2) - drop(total_sq) * step*steps) *)
(* when curved.                                                            *)
(***************************************************************************)
SampleBlocks(grid, rows, cols, eye10, target, obs, dr, dc, steps, step, total_sq, curved) ==
  LET terrain == BilinearSample(grid, rows, cols,
                                obs[1] * steps + dr * step,
                                obs[2] * steps + dc * step, steps)
      X == Tenths(terrain.num) - steps * steps * eye10
           - (Tenths(target) - eye10) * step * steps
      Y == Tenths(CurvatureDrop(total_sq * step * step)
                  - CurvatureDrop(total_sq) * step * steps)
  IN  IF terrain.nan THEN TRUE
      ELSE IF curved /\ total_sq > 0 THEN MulGT(TwoR, X, Y)
      ELSE X > 0

(***************************************************************************)
(* _line_of_sight(dem, observer_elevation, target_elevation, observer_rc,  *)
(* target_rc, cell_size_m, curvature_enabled)                              *)
(***************************************************************************)
LineOfSight_skipLast(grid, rows, cols, eye10, target, obs, tgt, cell_size, curved) ==
  LET dr == tgt[1] - obs[1]
      dc == tgt[2] - obs[2]
      steps == Max2(Abs(dr), Abs(dc))
      total_sq == (dr * dr + dc * dc) * cell_size * cell_size
  IN  IF steps = 0 THEN TRUE
      ELSE \A step \in 1 .. steps - 2 :
             ~SampleBlocks(grid, rows, cols, eye10, target, obs, dr, dc,
                           steps, step, total_sq, curved)

LineOfSight(grid, rows, cols, eye10, target, obs, tgt, cell_size, curved) ==
  LET dr == tgt[1] - obs[1]
      dc == tgt[2] - obs[2]
      steps == Max2(Abs(dr), Abs(dc))
      total_sq == (dr * dr + dc * dc) * cell_size * cell_size
  IN  IF steps = 0 THEN TRUE
      ELSE \A step \in 1 .. steps - 1 :
             ~SampleBlocks(grid, rows, cols, eye10, target, obs, dr, dc,
                           steps, step, total_sq, curved)

(***************************************************************************)
(* Elevation angles of the radial engine (lines 124-128).                  *)
(*   angle = atan2(target_effective - observer_elevation, distance)        *)
(* is held as: y10, the uncorrected elevation difference in tenths; drop,  *)
(* the curvature drop subtracted from it (numerator over 2R, 0 when        *)
(* curvature is off); g, the cell's multiplier along its ray.  The cells   *)
(* of one ray bucket are at distances g * u for one u > 0, so for two      *)
(* angles a, b of one bucket                                               *)
(*   a >= b  <=>  (a.y - a.drop/2R) / a.g >= (b.y - b.drop/2R) / b.g       *)
(*           <=>  2R * (b.g * a.y10 - a.g * b.y10)                         *)
(*                  >= 10 * (b.g * a.drop - a.g * b.drop).                 *)
(* Angles are only ever compared within one bucket.                        *)
(***************************************************************************)
NegInf == [neg_inf |-> TRUE, y10 |-> 0, drop |-> 0, g |-> 1]

Angle(eye10, target, dr, dc, g, cell_size, curved) ==
  LET distance_sq == (dr * dr + dc * dc) * cell_size * cell_size
  IN  [neg_inf |-> FALSE,
       y10 |-> Tenths(target) - eye10,
       drop |-> IF curved /\ distance_sq > 0 THEN CurvatureDrop(distance_sq) ELSE 0,
       g |-> g]

AngleGE(a, b) ==
  IF b.neg_inf THEN TRUE
  ELSE IF a.neg_inf THEN FALSE
  ELSE MulGE(TwoR, b.g * a.y10 - a.g * b.y10, Tenths(b.g * a.drop - a.g * b.drop))

AngleGT(a, b) == ~AngleGE(b, a)

(***************************************************************************)
(* "angle >= max_angle - epsilon" (line 137), epsilon = 1e-12.  Two        *)
(* different angles of one bucket differ by far more than epsilon for the  *)
(* inputs drawn here (whole-metre elevations, tenth-metre heights, cell    *)
(* sizes of at least a metre), so the tolerance only makes an exact tie    *)
(* count as visible, which >= on exact values already does.                *)
(***************************************************************************)
WithinHorizon(angle, max_angle) == AngleGE(angle, max_angle)

\* "if angle > max_angle: max_angle = angle" (lines 139-140)
RaiseHorizon_never(angle, max_angle) == IF max_angle.neg_inf THEN angle ELSE max_angle

RaiseHorizon(angle, max_angle) == IF AngleGT(angle, max_angle) THEN angle ELSE max_angle

(***************************************************************************)
(* The ray buckets: the dict "rays" as the sequence of its items in        *)
(* insertion order, each [direction, entries]; an entry is the tuple       *)
(* (g, r, c, angle).                                                       *)
(***************************************************************************)
BucketIndex(rays, direction) ==
  IF \E i \in 1 .. Len(rays) : rays[i].direction = direction
    THEN CHOOSE i \in 1 .. Len(rays) : rays[i].direction = direction
  ELSE 0

\* rays.setdefault(direction, []).append(item)
SetDefaultAppend(rays, direction, item) ==
  LET i == BucketIndex(rays, direction)
  IN  IF i = 0 THEN Append(rays, [direction |-> direction, entries |-> <<item>>])
      ELSE [rays EXCEPT ![i].entries = Append(@, item)]

\* The body of the bucketing loop (lines 111-130) for the cell <<r, c>>.
BucketCell(rays, grid, obs, eye10, r, c, cell_size, curved) ==
  LET target == grid[<<r, c>>]
      dr == r - obs[1]
      dc == c - obs[2]
      g == Gcd(Abs(dr), Abs(dc))
  IN  IF r = obs[1] /\ c = obs[2] THEN rays
      ELSE IF IsNaN(target) THEN rays
      ELSE IF g = 0 THEN rays
      ELSE SetDefaultAppend(rays, <<dr \div g, dc \div g>>,
                            [g |-> g, r |-> r, c |-> c,
                             angle |-> Angle(eye10, target, dr, dc, g, cell_size, curved)])

\* entries.sort(key=lambda item: item[0]): a stable sort on g.
RECURSIVE InsertByG(_, _)
InsertByG(sorted, item) ==
  IF sorted = <<>> THEN <<item>>
  ELSE IF sorted[Len(sorted)].g <= item.g THEN Append(sorted, item)
  ELSE Append(InsertByG(SubSeq(sorted, 1, Len(sorted) - 1), item), sorted[Len(sorted)])

RECURSIVE SortFrom(_, _, _)
SortFrom(entries, i, sorted) ==
  IF i > Len(entries) THEN sorted
  ELSE SortFrom(entries, i + 1, InsertByG(sorted, entries[i]))

SortEntries_unsorted(entries) == entries

SortEntries(entries) == SortFrom(entries, 1, <<>>)

\* The sweep of one sorted bucket (lines 135-140), from entry i on.
RECURSIVE SweepFrom(_, _, _, _)
SweepFrom(entries, i, max_angle, vis) ==
  IF i > Len(entries) THEN vis
  ELSE LET e == entries[i]
           seen == WithinHorizon(e.angle, max_angle)
       IN  SweepFrom(entries, i + 1,
                     IF seen THEN RaiseHorizon(e.angle, max_angle) ELSE max_angle,
                     IF seen THEN [vis EXCEPT ![<<e.r, e.c>>] = TRUE] ELSE vis)

\* One iteration of "for entries in rays.values()" (lines 133-140).
SweepBucket(entries, vis) == SweepFrom(SortEntries(entries), 1, NegInf, vis)

(***************************************************************************)
(* The mask both engines start from (lines 104-105, 162-163).              *)
(***************************************************************************)
NewMask_zeros(rows, cols, obs) == [cell \in CellsOf(rows, cols) |-> FALSE]

NewMask(rows, cols, obs) == [cell \in CellsOf(rows, cols) |-> cell = obs]

\* The body of the baseline loop (lines 167-181) for the cell <<r, c>>.
BaselineCell(vis, grid, rows, cols, obs, eye10, r, c, cell_size, curved) ==
  LET target == grid[<<r, c>>]
  IN  IF r = obs[1] /\ c = obs[2] THEN vis
      ELSE IF IsNaN(target) THEN vis
      ELSE IF LineOfSight(grid, rows, cols, eye10, target, obs, <<r, c>>, cell_size, curved)
        THEN [vis EXCEPT ![<<r, c>>] = TRUE]
      ELSE vis

\* The engine each public function runs (lines 26, 40, 85).
Engine(entry) ==
  CASE entry = "compute_viewshed" -> "baseline"
    [] entry = "compute_viewshed_radial" -> "radial"
    [] entry = "compute_viewshed_baseline" -> "baseline"

(***************************************************************************)
(* smooth_visibility_mask (lines 43-70).  threshold is <<>> for None and   *)
(* <<n>> for the integer n.                                                *)
(***************************************************************************)
DefaultThreshold == 5

\* "threshold if threshold is not None else 5" (line 67)
Required(threshold) == IF threshold = <<>> THEN DefaultThreshold ELSE threshold[1]

\* np.pad(current, 1, mode="constant", constant_values=0), read at the
\* original cell <<r, c>> (which may lie one step outside the mask).
Padded_ones(current, rows, cols, r, c) ==
  IF 0 <= r /\ r < rows /\ 0 <= c /\ c < cols
    THEN (IF current[<<r, c>>] THEN 1 ELSE 0)
  ELSE 1

Padded(current, rows, cols, r, c) ==
  IF 0 <= r /\ r < rows /\ 0 <= c /\ c < cols
    THEN (IF current[<<r, c>>] THEN 1 ELSE 0)
  ELSE 0

\* window_sum at the cell <<r, c>> (lines 56-66)
WindowSum(current, rows, cols, r, c) ==
  Padded(current, rows, cols, r - 1, c - 1)
  + Padded(current, rows, cols, r - 1, c)
  + Padded(current, rows, cols, r - 1, c + 1)
  + Padded(current, rows, cols, r, c - 1)
  + Padded(current, rows, cols, r, c)
  + Padded(current, rows, cols, r, c + 1)
  + Padded(current, rows, cols, r + 1, c - 1)
  + Padded(current, rows, cols, r + 1, c)
  + Padded(current, rows, cols, r + 1, c + 1)

\* One iteration of the loop of line 54.
SmoothOnce(current, rows, cols, threshold) ==
  [cell \in CellsOf(rows, cols) |->
     WindowSum(current, rows, cols, cell[1], cell[2]) >= Required(threshold)]

(***************************************************************************)
(* State: one call of a public function.                                   *)
(***************************************************************************)
VARIABLES
  entry,                \* the public function called
  ndim, rows, cols,     \* dem.ndim (mask.ndim) and dem.shape (mask.shape)
  dem,                  \* the elevation grid
  observer_rc,          \* <<row, col>>
  observer_height_m,    \* in tenths of a metre
  cell_size_m,
  curvature_enabled,
  pc,                   \* where the call is
  error,                \* the exception raised, or "none"
  observer_elevation,   \* in tenths of a metre
  visibility,           \* the mask being built; <<>> before it is created
  scanned,              \* cells the scan loop has gone through
  rays,                 \* the ray buckets of the radial engine
  swept,                \* (indices of) buckets the sweep loop has gone through
  mask, passes, threshold,   \* smooth_visibility_mask's arguments
  current,              \* its working array; <<>> before line 53
  pass_no,              \* iterations of its loop done
  smoothed              \* its return value; <<>> before it returns

vars == <<entry, ndim, rows, cols, dem, observer_rc, observer_height_m, cell_size_m,
          curvature_enabled, pc, error, observer_elevation, visibility, scanned, rays,
          swept, mask, passes, threshold, current, pass_no, smoothed>>

inputs == <<entry, ndim, rows, cols, dem, observer_rc, observer_height_m, cell_size_m,
            curvature_enabled, mask, passes, threshold>>

viewshed_locals == <<observer_elevation, visibility, scanned, rays, swept>>

smooth_locals == <<current, pass_no, smoothed>>

\* The locals of a call that has not started.
FreshLocals ==
  /\ error = "none"
  /\ observer_elevation = 0
  /\ visibility = <<>>
  /\ scanned = {}
  /\ rays = <<>>
  /\ swept = {}
  /\ current = <<>>
  /\ pass_no = 0
  /\ smoothed = <<>>

\* The state at the start of a viewshed call with the given arguments.
StartViewshed(e, nd, shape, grid, obs, height10, cell_size, curved) ==
  /\ entry = e
  /\ ndim = nd
  /\ rows = shape[1]
  /\ cols = shape[2]
  /\ dem = grid
  /\ observer_rc = obs
  /\ observer_height_m = height10
  /\ cell_size_m = cell_size
  /\ curvature_enabled = curved
  /\ pc = "validate"
  /\ mask = <<>>
  /\ passes = 0
  /\ threshold = <<>>
  /\ FreshLocals

\* The state at the start of a smooth_visibility_mask call.
StartSmooth(nd, shape, m, n, t) ==
  /\ entry = "smooth_visibility_mask"
  /\ ndim = nd
  /\ rows = shape[1]
  /\ cols = shape[2]
  /\ dem = <<>>
  /\ observer_rc = <<0, 0>>
  /\ observer_height_m = 0
  /\ cell_size_m = 1
  /\ curvature_enabled = FALSE
  /\ pc = "smooth"
  /\ mask = m
  /\ passes = n
  /\ threshold = t
  /\ FreshLocals

(***************************************************************************)
(* The steps of _compute_viewshed_baseline and _compute_viewshed_radial.   *)
(***************************************************************************)
\* _validate_inputs (lines 95, 152)
Validate ==
  /\ pc = "validate"
  /\ LET err == ValidateInputs(ndim, rows, cols, observer_rc, observer_height_m, cell_size_m)
     IN  /\ error' = err
         /\ pc' = IF err = "none" THEN "observer" ELSE "failed"
  /\ UNCHANGED <<inputs, viewshed_locals, smooth_locals>>

\* lines 97-103, 154-160
ReadObserver ==
  /\ pc = "observer"
  /\ LET observer_ground == dem[observer_rc]
     IN  IF IsNaN(observer_ground)
           THEN /\ error' = "ValueError: Observer elevation is NaN."
                /\ pc' = "failed"
                /\ UNCHANGED observer_elevation
         ELSE /\ observer_elevation' = Tenths(observer_ground) + observer_height_m
              /\ pc' = "alloc"
              /\ UNCHANGED error
  /\ UNCHANGED <<inputs, visibility, scanned, rays, swept, smooth_locals>>

\* lines 104-107, 162-163
CreateMask ==
  /\ pc = "alloc"
  /\ visibility' = NewMask(rows, cols, observer_rc)
  /\ rays' = <<>>
  /\ pc' = "scan"
  /\ UNCHANGED <<inputs, error, observer_elevation, scanned, swept, smooth_locals>>

\* The cell the scan loop "for r in range(rows): for c in range(cols)" takes
\* next, after the cells in done.
NextInScan(done) == ScanCell(Cardinality(done), cols)

\* One iteration of the loop of lines 165-181.
BaselineStep ==
  /\ pc = "scan"
  /\ Engine(entry) = "baseline"
  /\ Cardinality(scanned) < rows * cols
  /\ LET cell == NextInScan(scanned)
     IN  /\ visibility' = BaselineCell(visibility, dem, rows, cols, observer_rc,
                                       observer_elevation, cell[1], cell[2],
                                       cell_size_m, curvature_enabled)
         /\ scanned' = scanned \cup {cell}
  /\ UNCHANGED <<inputs, pc, error, observer_elevation, rays, swept, smooth_locals>>

\* One iteration of the loop of lines 109-130.
RadialBucketStep ==
  /\ pc = "scan"
  /\ Engine(entry) = "radial"
  /\ Cardinality(scanned) < rows * cols
  /\ LET cell == NextInScan(scanned)
     IN  /\ rays' = BucketCell(rays, dem, observer_rc, observer_elevation,
                               cell[1], cell[2], cell_size_m, curvature_enabled)
         /\ scanned' = scanned \cup {cell}
  /\ UNCHANGED <<inputs, pc, error, observer_elevation, visibility, swept, smooth_locals>>

\* One iteration of the loop of lines 133-140: the next bucket of the dict.
RadialSweepStep ==
  /\ pc = "scan"
  /\ Engine(entry) = "radial"
  /\ Cardinality(scanned) = rows * cols
  /\ Cardinality(swept) < Len(rays)
  /\ LET i == Cardinality(swept) + 1
     IN  /\ visibility' = SweepBucket(rays[i].entries, visibility)
         /\ rays' = [rays EXCEPT ![i].entries = SortEntries(@)]
         /\ swept' = swept \cup {i}
  /\ UNCHANGED <<inputs, pc, error, observer_elevation, scanned, smooth_locals>>

\* "return visibility" (lines 142, 183)
Return ==
  /\ pc = "scan"
  /\ Cardinality(scanned) = rows * cols
  /\ Engine(entry) = "radial" => Cardinality(swept) = Len(rays)
  /\ pc' = "done"
  /\ UNCHANGED <<inputs, error, viewshed_locals, smooth_locals>>

NextViewshed ==
  \/ Validate
  \/ ReadObserver
  \/ CreateMask
  \/ BaselineStep
  \/ RadialBucketStep
  \/ RadialSweepStep
  \/ Return

(***************************************************************************)
(* The same loops with their iterations taken in an arbitrary order: any   *)
(* cell not yet scanned, any bucket not yet swept.                         *)
(***************************************************************************)
AnyBaselineStep ==
  /\ pc = "scan"
  /\ Engine(entry) = "baseline"
  /\ \E cell \in CellsOf(rows, cols) \ scanned :
       /\ visibility' = BaselineCell(visibility, dem, rows, cols, observer_rc,
                                     observer_elevation, cell[1], cell[2],
                                     cell_size_m, curvature_enabled)
       /\ scanned' = scanned \cup {cell}
  /\ UNCHANGED <<inputs, pc, error, observer_elevation, rays, swept, smooth_locals>>

AnyBucketStep ==
  /\ pc = "scan"
  /\ Engine(entry) = "radial"
  /\ \E cell \in CellsOf(rows, cols) \ scanned :
       /\ rays' = BucketCell(rays, dem, observer_rc, observer_elevation,
                             cell[1], cell[2], cell_size_m, curvature_enabled)
       /\ scanned' = scanned \cup {cell}
  /\ UNCHANGED <<inputs, pc, error, observer_elevation, visibility, swept, smooth_locals>>

AnySweepStep ==
  /\ pc = "scan"
  /\ Engine(entry) = "radial"
  /\ Cardinality(scanned) = rows * cols
  /\ \E i \in (1 .. Len(rays)) \ swept :
       /\ visibility' = SweepBucket(rays[i].entries, visibility)
       /\ rays' = [rays EXCEPT ![i].entries = SortEntries(@)]
       /\ swept' = swept \cup {i}
  /\ UNCHANGED <<inputs, pc, error, observer_elevation, scanned, smooth_locals>>

NextAnyOrder ==
  \/ Validate
  \/ ReadObserver
  \/ CreateMask
  \/ AnyBaselineStep
  \/ AnyBucketStep
  \/ AnySweepStep
  \/ Return

(***************************************************************************)
(* The steps of smooth_visibility_mask.                                    *)
(***************************************************************************)
\* lines 48-53
SmoothEnter ==
  /\ pc = "smooth"
  /\ IF ndim # 2
       THEN /\ error' = "ValueError: mask must be a 2D array."
            /\ pc' = "failed"
            /\ UNCHANGED smooth_locals
     ELSE IF passes < 1
       THEN /\ smoothed' = mask
            /\ pc' = "done"
            /\ UNCHANGED <<error, current, pass_no>>
     ELSE /\ current' = mask
          /\ pass_no' = 0
          /\ pc' = "smooth_loop"
          /\ UNCHANGED <<error, smoothed>>
  /\ UNCHANGED <<inputs, viewshed_locals>>

\* One iteration of the loop of lines 54-68.
SmoothPass ==
  /\ pc = "smooth_loop"
  /\ pass_no < passes
  /\ current' = SmoothOnce(current, rows, cols, threshold)
  /\ pass_no' = pass_no + 1
  /\ UNCHANGED <<inputs, pc, error, viewshed_locals, smoothed>>

\* line 70
SmoothReturn ==
  /\ pc = "smooth_loop"
  /\ pass_no = passes
  /\ smoothed' = current
  /\ pc' = "done"
  /\ UNCHANGED <<inputs, error, viewshed_locals, current, pass_no>>

NextSmooth ==
  \/ SmoothEnter
  \/ SmoothPass
  \/ SmoothReturn

(***************************************************************************)
(* The mask a whole call returns on valid arguments: the steps above, run  *)
(* from the new mask to the return.                                        *)
(***************************************************************************)
\* _compute_viewshed_baseline (lines 160-183).  An iteration of its loop
\* reads the grid and writes no cell but its own, so the returned mask holds
\* at each cell what that cell's iteration writes into the new mask.
ViewshedBaseline(grid, rws, cls, obs, height10, cell_size, curved) ==
  LET eye10 == Tenths(grid[obs]) + height10
  IN  [cell \in CellsOf(rws, cls) |->
         BaselineCell(NewMask(rws, cls, obs), grid, rws, cls, obs, eye10,
                      cell[1], cell[2], cell_size, curved)[cell]]

\* The dict "rays" after the loop of lines 109-130.
RaysOf(grid, rws, cls, obs, height10, cell_size, curved) ==
  LET eye10 == Tenths(grid[obs]) + height10
      scan[k \in 0 .. rws * cls] ==
        IF k = 0 THEN <<>>
        ELSE BucketCell(scan[k - 1], grid, obs, eye10,
                        ScanCell(k - 1, cls)[1], ScanCell(k - 1, cls)[2],
                        cell_size, curved)
  IN  scan[rws * cls]

\* _compute_viewshed_radial (lines 103-142)
ViewshedRadial(grid, rws, cls, obs, height10, cell_size, curved) ==
  LET buckets == RaysOf(grid, rws, cls, obs, height10, cell_size, curved)
      sweep[k \in 0 .. Len(buckets)] ==
        IF k = 0 THEN NewMask(rws, cls, obs)
        ELSE SweepBucket(buckets[k].entries, sweep[k - 1])
  IN  sweep[Len(buckets)]

\* The mask the engine of the current call returns in the code's own order,
\* with the curvature setting given.
CodeOrderMask(engine, curved) ==
  IF engine = "radial"
    THEN ViewshedRadial(dem, rows, cols, observer_rc, observer_height_m, cell_size_m, curved)
  ELSE ViewshedBaseline(dem, rows, cols, observer_rc, observer_height_m, cell_size_m, curved)

(***************************************************************************)
(* Inputs.                                                                 *)
(***************************************************************************)
Entries == {"compute_viewshed", "compute_viewshed_radial", "compute_viewshed_baseline"}

Shapes(n) == {s \in (1 .. n) \X (1 .. n) : s[1] * s[2] <= n}

Grids(shape, values) == [CellsOf(shape[1], shape[2]) -> values]

OutOfBounds(shape) == {<<-1, 0>>, <<0, -1>>, <<shape[1], 0>>, <<0, shape[2]>>}

\* Largest number of cells of a grid drawn in full generality.
MaxCells == 4

Elevations == {0, 1}

Heights10 == {0, 17}

CellSizes == {30, 1000}

\* Calls with valid parameters on every small grid (the observer cell may hold NaN).
InitGeneral ==
  \E shape \in Shapes(MaxCells) :
    \E grid \in Grids(shape, Elevations \cup {NaN}), obs \in CellsOf(shape[1], shape[2]),
       h \in Heights10, cs \in CellSizes, cv \in BOOLEAN, e \in Entries :
      StartViewshed(e, 2, shape, grid, obs, h, cs, cv)

\* Calls with every combination of valid and invalid parameters on the smallest grids.
InitErrors ==
  \E shape \in Shapes(2) :
    \E grid \in Grids(shape, Elevations \cup {NaN}),
       obs \in CellsOf(shape[1], shape[2]) \cup OutOfBounds(shape),
       nd \in {1, 2, 3}, h \in Heights10 \cup {-10}, cs \in CellSizes \cup {0, -30},
       cv \in BOOLEAN, e \in Entries :
      StartViewshed(e, nd, shape, grid, obs, h, cs, cv)

\* Calls with valid parameters on every 3 by 3 terrain without NaN.
TerrainShape == <<3, 3>>

InitTerrain ==
  \E grid \in Grids(TerrainShape, Elevations),
     obs \in CellsOf(TerrainShape[1], TerrainShape[2]),
     h \in Heights10, cs \in CellSizes, cv \in BOOLEAN, e \in Entries :
    StartViewshed(e, 2, TerrainShape, grid, obs, h, cs, cv)

Init == InitGeneral \/ InitTerrain \/ InitErrors

Next == NextViewshed

Spec == Init /\ [][Next]_vars

(***************************************************************************)
(* Claims checked under Spec.                                              *)
(***************************************************************************)
InBounds == observer_rc \in CellsOf(rows, cols)

\* The first check, in the order shape, cell size, height, bounds, observer
\* no-data, that the arguments of the call fail; "none" when they are valid.
FirstFailure ==
  IF ndim # 2 THEN "ValueError: DEM must be a 2D array."
  ELSE IF cell_size_m <= 0 THEN "ValueError: cell_size_m must be positive."
  ELSE IF observer_height_m < 0 THEN "ValueError: observer_height_m must be non-negative."
  ELSE IF ~InBounds THEN "IndexError: Observer index out of bounds."
  ELSE IF IsNaN(dem[observer_rc]) THEN "ValueError: Observer elevation is NaN."
  ELSE "none"

NothingComputed == visibility = <<>> /\ scanned = {} /\ rays = <<>> /\ swept = {}

\* C1: a call with a non-2-D grid, cell_size_m <= 0, observer_height_m < 0,
\* an out-of-bounds observer or a NaN observer cell never gets past the
\* checks: it creates no mask, scans no cell and never returns; when it has
\* failed, the error is that of the first failing check in the order shape,
\* cell size, height, bounds, observer no-data; and only such calls fail.
C1_FailFast ==
  /\ FirstFailure # "none" =>
       /\ pc \in {"validate", "observer", "failed"}
       /\ NothingComputed
  /\ pc = "failed" => error = FirstFailure /\ NothingComputed
  /\ pc = "observer" => FirstFailure \in {"none", "ValueError: Observer elevation is NaN."}
  /\ pc \notin {"validate", "failed"} => error = "none"
  /\ (FirstFailure # "none" /\ pc # "failed") => ENABLED Next

\* A call that failed on its cell size although its height and its observer
\* index are invalid too.
C1_Witness ==
  /\ pc = "failed"
  /\ error = "ValueError: cell_size_m must be positive."
  /\ observer_height_m < 0
  /\ ~InBounds

\* C2: compute_viewshed returns the mask of the radial engine.
C2_DefaultIsRadial ==
  (pc = "done" /\ entry = "compute_viewshed") =>
    visibility = CodeOrderMask("radial", curvature_enabled)

\* C4: every cell an engine marks visible with curvature enabled it also
\* marks visible, on the same arguments, with curvature disabled.
C4_CurvatureOnlyRemoves ==
  (pc = "done" /\ curvature_enabled) =>
    \A cell \in CellsOf(rows, cols) :
      visibility[cell] => CodeOrderMask(Engine(entry), FALSE)[cell]

\* A radial call with curvature enabled that returned strictly fewer
\* visible cells than the same call with curvature disabled returns.
C4_Witness ==
  /\ pc = "done"
  /\ curvature_enabled
  /\ Engine(entry) = "radial"
  /\ visibility # CodeOrderMask("radial", FALSE)

\* m lies on the straight segment from o to t, strictly between them.
StrictlyBetween(o, m, t) ==
  LET cross == (m[1] - o[1]) * (t[2] - o[2]) - (m[2] - o[2]) * (t[1] - o[1])
      dot == (m[1] - o[1]) * (t[1] - o[1]) + (m[2] - o[2]) * (t[2] - o[2])
      len_sq == (t[1] - o[1]) * (t[1] - o[1]) + (t[2] - o[2]) * (t[2] - o[2])
  IN  cross = 0 /\ 0 < dot /\ dot < len_sq

\* C7: with valid arguments and a finite observer cell, NaN elsewhere raises
\* no error, a NaN cell is never marked visible, and a finite cell with a
\* NaN cell strictly between the observer and it is never marked visible,
\* in both engines.
C7_NaNOccludes ==
  /\ (FirstFailure = "none") => pc # "failed"
  /\ pc = "done" =>
       \A cell \in CellsOf(rows, cols) :
         /\ IsNaN(dem[cell]) => ~visibility[cell]
         /\ (\E m \in CellsOf(rows, cols) :
               IsNaN(dem[m]) /\ StrictlyBetween(observer_rc, m, cell)) => ~visibility[cell]

\* C9: a call with valid arguments does not fail, and returns a mask of the
\* grid's shape whose observer cell is true.
C9_ShapeAndObserver ==
  /\ FirstFailure = "none" => pc # "failed"
  /\ pc = "done" =>
       /\ DOMAIN visibility = CellsOf(rows, cols)
       /\ \A cell \in CellsOf(rows, cols) : visibility[cell] \in BOOLEAN
       /\ visibility[observer_rc]

\* A returned mask of a grid of several cells, one of them NaN, in which the
\* observer cell is the only visible one.
C9_Witness ==
  /\ pc = "done"
  /\ rows * cols >= 3
  /\ \E cell \in CellsOf(rows, cols) : IsNaN(dem[cell])
  /\ \A cell \in CellsOf(rows, cols) : visibility[cell] <=> cell = observer_rc

(***************************************************************************)
(* The spike grid: 9 by 9, flat at 0 except for a 5-unit spike two cells   *)
(* north of the observer, for every observer that has such a cell.         *)
(***************************************************************************)
SpikeShape == <<9, 9>>

SpikeHeights10 == {0, 17, 100, 150}

SpikeCellSizes == {10, 300}

SpikeOf(obs) == <<obs[1] - 2, obs[2]>>

SpikeGrid(obs) == [cell \in CellsOf(SpikeShape[1], SpikeShape[2]) |->
                     IF cell = SpikeOf(obs) THEN 5 ELSE 0]

InitSpike ==
  \E obs \in CellsOf(SpikeShape[1], SpikeShape[2]), h \in SpikeHeights10,
     cs \in SpikeCellSizes, cv \in BOOLEAN,
     e \in {"compute_viewshed_radial", "compute_viewshed_baseline"} :
    /\ obs[1] >= 2
    /\ StartViewshed(e, 2, SpikeShape, SpikeGrid(obs), obs, h, cs, cv)

SpecSpike == InitSpike /\ [][NextViewshed]_vars

\* The cells the radial engine has placed in a bucket.
Bucketed ==
  UNION {{<<rays[i].entries[j].r, rays[i].entries[j].c>> :
            j \in 1 .. Len(rays[i].entries)} : i \in 1 .. Len(rays)}

\* The cells on the observer's row, column and two diagonals.
OnPrincipalRay(cell) ==
  LET dr == cell[1] - observer_rc[1]
      dc == cell[2] - observer_rc[2]
  IN  cell # observer_rc /\ (dr = 0 \/ dc = 0 \/ Abs(dr) = Abs(dc))

MaxFlatCells == 6

FlatCellSizes == {10}

PlaneShape == <<5, 5>>

InitFlatSmall ==
  \E shape \in Shapes(MaxFlatCells), base \in Elevations :
    \E grid \in Grids(shape, {base, NaN}), obs \in CellsOf(shape[1], shape[2]),
       h \in Heights10, cs \in FlatCellSizes, cv \in BOOLEAN,
       e \in {"compute_viewshed_radial", "compute_viewshed_baseline"} :
      StartViewshed(e, 2, shape, grid, obs, h, cs, cv)

InitFlatPlane ==
  \E obs \in CellsOf(PlaneShape[1], PlaneShape[2]), h \in Heights10,
     cs \in FlatCellSizes, cv \in BOOLEAN, e \in Entries :
    StartViewshed(e, 2, PlaneShape, [cell \in CellsOf(PlaneShape[1], PlaneShape[2]) |-> 0],
                  obs, h, cs, cv)

InitFlat == InitFlatSmall \/ InitFlatPlane

SpecFlat == InitFlat /\ [][NextViewshed]_vars

Finite(cell) == ~IsNaN(dem[cell])

\* Every finite cell of the grid holds the observer cell's elevation.
FlatGrid == \A cell \in CellsOf(rows, cols) : Finite(cell) => dem[cell] = dem[observer_rc]

NoNaN == \A cell \in CellsOf(rows, cols) : Finite(cell)

\* The concrete scenario: the 5 by 5 plane at 0, observer (2, 2), height 1.7,
\* cell size 10, curvature disabled.
PlaneScenario ==
  /\ rows = 5 /\ cols = 5
  /\ \A cell \in CellsOf(rows, cols) : dem[cell] = 0
  /\ observer_rc = <<2, 2>>
  /\ observer_height_m = 17
  /\ cell_size_m = 10
  /\ ~curvature_enabled

\* C6 as stated: on a grid whose finite cells all hold one elevation, with
\* curvature disabled and observer_height_m > 0, each engine marks every
\* finite cell visible.
C6_EveryFiniteCellVisible ==
  (pc = "done" /\ FlatGrid /\ ~curvature_enabled /\ observer_height_m > 0) =>
    \A cell \in CellsOf(rows, cols) : Finite(cell) => visibility[cell]

\* C6 as amended: on such a grid the radial engine marks every finite cell
\* visible, and the baseline engine does when the grid holds no NaN; the
\* 5 by 5 scenario yields 25 true cells.
C6_FlatPlaneVisible ==
  /\ (pc = "done" /\ FlatGrid /\ ~curvature_enabled /\ observer_height_m > 0
        /\ (Engine(entry) = "radial" \/ NoNaN)) =>
       \A cell \in CellsOf(rows, cols) : Finite(cell) => visibility[cell]
  /\ (pc = "done" /\ PlaneScenario) =>
       Cardinality({cell \in CellsOf(rows, cols) : visibility[cell]}) = 25

\* The baseline engine has returned 25 true cells in the 5 by 5 scenario.
C6_Witness ==
  /\ pc = "done"
  /\ PlaneScenario
  /\ Engine(entry) = "baseline"
  /\ Cardinality({cell \in CellsOf(rows, cols) : visibility[cell]}) = 25

(***************************************************************************)
(* Transects: one-row grids, flat at a base elevation except for one spike *)
(* of elevation 50, for every observer and every spike position.           *)
(***************************************************************************)
\* Largest length of a transect.
MaxTransect == 6

TransectBases == {0, 20}

TransectHeights10 == {0, 17, 300, 500, 1000}

TransectCellSizes == {30}

TransectGrid(n, spike, base) ==
  [cell \in CellsOf(1, n) |-> IF cell = <<0, spike>> THEN 50 ELSE base]

InitTransect ==
  \E n \in 3 .. MaxTransect :
    \E o \in 0 .. n - 1, spike \in 0 .. n - 1, base \in TransectBases,
       h \in TransectHeights10, cs \in TransectCellSizes, cv \in BOOLEAN, e \in Entries :
      /\ spike # o
      /\ StartViewshed(e, 2, <<1, n>>, TransectGrid(n, spike, base), <<0, o>>, h, cs, cv)

SpecTransect == InitTransect /\ [][NextViewshed]_vars

TheSpike == CHOOSE cell \in CellsOf(rows, cols) : dem[cell] = 50

\* The spike lies strictly between the observer and the cell, which is lower.
BehindSpike(cell) ==
  StrictlyBetween(observer_rc, TheSpike, cell) /\ dem[cell] < dem[TheSpike]

\* The cell is strictly nearer to the observer than the spike is.
NearerThanSpike(cell) ==
  Abs(cell[2] - observer_rc[2]) < Abs(TheSpike[2] - observer_rc[2])

\* C8 as stated: for any observer height, the baseline engine with curvature
\* disabled marks every lower cell behind the spike not visible and every
\* cell strictly nearer than the spike visible.
C8_SpikeOccludes ==
  (pc = "done" /\ Engine(entry) = "baseline" /\ ~curvature_enabled) =>
    \A cell \in CellsOf(rows, cols) :
      /\ BehindSpike(cell) => ~visibility[cell]
      /\ NearerThanSpike(cell) => visibility[cell]

\* C8 as amended: the same, the cells behind the spike being hidden when the
\* observer's eye (ground elevation plus height) is not above the spike.
C8_SpikeOccludesLowEye ==
  (pc = "done" /\ Engine(entry) = "baseline" /\ ~curvature_enabled) =>
    \A cell \in CellsOf(rows, cols) :
      /\ (BehindSpike(cell) /\ Tenths(dem[observer_rc]) + observer_height_m <= Tenths(dem[TheSpike]))
           => ~visibility[cell]
      /\ NearerThanSpike(cell) => visibility[cell]

\* The baseline engine has returned, for an eye below the spike, a mask that
\* hides a cell behind the spike and shows a cell between observer and spike.
C8_Witness ==
  /\ pc = "done"
  /\ Engine(entry) = "baseline"
  /\ ~curvature_enabled
  /\ Tenths(dem[observer_rc]) + observer_height_m < Tenths(dem[TheSpike])
  /\ \E cell \in CellsOf(rows, cols) : BehindSpike(cell) /\ ~visibility[cell]
  /\ \E cell \in CellsOf(rows, cols) :
       /\ StrictlyBetween(observer_rc, cell, TheSpike)
       /\ NearerThanSpike(cell)
       /\ visibility[cell]

(***************************************************************************)
(* Calls of smooth_visibility_mask: every mask of up to MaxMaskCells       *)
(* cells, with passes from 0 to MaxPasses and a default or given           *)
(* threshold.                                                              *)
(***************************************************************************)
MaxMaskCells == 9

MaxPasses == 3

Thresholds == {<<>>, <<1>>, <<5>>, <<9>>}

InitSmooth ==
  \E shape \in Shapes(MaxMaskCells) :
    \E m \in Grids(shape, BOOLEAN), n \in 0 .. MaxPasses, t \in Thresholds,
       nd \in {1, 2, 3} :
      StartSmooth(nd, shape, m, n, t)

SpecSmooth == InitSmooth /\ [][NextSmooth]_vars

Uniform(m, v) == \A cell \in DOMAIN m : m[cell] = v

\* C3 as stated: a uniformly all-true or all-false mask is returned
\* unchanged for every passes >= 1 with the default threshold.
C3_UniformUnchanged ==
  (pc = "done" /\ passes >= 1 /\ threshold = <<>>
     /\ (Uniform(mask, TRUE) \/ Uniform(mask, FALSE))) =>
    smoothed = mask

\* C3 as amended: a uniformly all-false mask is returned unchanged for every
\* passes >= 1 with the default threshold; a uniformly all-true mask is not:
\* its corner cells come back false.
C3_AllFalseUnchanged ==
  (pc = "done" /\ passes >= 1 /\ threshold = <<>>) =>
    /\ Uniform(mask, FALSE) => smoothed = mask
    /\ Uniform(mask, TRUE) =>
         /\ ~smoothed[<<0, 0>>]
         /\ ~smoothed[<<rows - 1, cols - 1>>]
         /\ ~smoothed[<<0, cols - 1>>]
         /\ ~smoothed[<<rows - 1, 0>>]

\* An all-false 3 by 3 mask has come back unchanged from several passes.
C3_Witness ==
  /\ pc = "done"
  /\ passes >= 2
  /\ threshold = <<>>
  /\ rows = 3 /\ cols = 3
  /\ Uniform(mask, FALSE)
  /\ smoothed = mask

(***************************************************************************)
(* The engines with their loops in an arbitrary order, on every grid of up *)
(* to MaxOrderCells cells.                                                 *)
(***************************************************************************)
MaxOrderCells == 4

InitAnyOrder ==
  \E shape \in Shapes(MaxOrderCells) :
    \E grid \in Grids(shape, Elevations \cup {NaN}), obs \in CellsOf(shape[1], shape[2]),
       h \in Heights10, cs \in CellSizes, cv \in BOOLEAN,
       e \in {"compute_viewshed_radial", "compute_viewshed_baseline"} :
      StartViewshed(e, 2, shape, grid, obs, h, cs, cv)

SpecAnyOrder == InitAnyOrder /\ [][NextAnyOrder]_vars

\* The buckets that hold the cell, and how many of their entries are the cell.
BucketsOf(cell) == {i \in 1 .. Len(rays) :
                      \E j \in 1 .. Len(rays[i].entries) :
                        <<rays[i].entries[j].r, rays[i].entries[j].c>> = cell}

EntriesOf(cell) == {<<i, j>> \in (1 .. Len(rays)) \X (1 .. rows * cols) :
                      /\ j <= Len(rays[i].entries)
                      /\ <<rays[i].entries[j].r, rays[i].entries[j].c>> = cell}

\* Once every cell is scanned, each finite cell but the observer's is in
\* exactly one bucket, once; no other cell is in any.
BucketedOnce ==
  (pc \in {"scan", "done"} /\ Engine(entry) = "radial" /\ scanned = CellsOf(rows, cols)) =>
    \A cell \in CellsOf(rows, cols) :
      Cardinality(EntriesOf(cell)) =
        IF Finite(cell) /\ cell # observer_rc THEN 1 ELSE 0

\* A step that changes the mask at a cell sets a cell other than the
\* observer's from false to true, and is that cell's own iteration of the
\* baseline loop or the sweep of the one bucket that holds the cell.
DisjointWrites ==
  (visibility # <<>>) =>
    \A cell \in CellsOf(rows, cols) :
      visibility'[cell] # visibility[cell] =>
        /\ cell # observer_rc
        /\ ~visibility[cell] /\ visibility'[cell]
        /\ Engine(entry) = "baseline" => scanned' \ scanned = {cell}
        /\ Engine(entry) = "radial" => swept' \ swept = BucketsOf(cell)

\* The mask returned is the one the code's own order returns.
OrderIndependent ==
  pc = "done" => visibility = CodeOrderMask(Engine(entry), curvature_enabled)

\* C10: within a call the mask writes are disjoint (each finite cell but the
\* observer's is in exactly one bucket and is written only by that bucket's
\* sweep, or by its own line-of-sight test in the baseline), no step writes
\* the observer cell after initialisation or resets a true cell, and the
\* returned mask is the same in whatever order the buckets or the target
\* cells are processed.
C10_DisjointWritesAnyOrder ==
  /\ [](BucketedOnce /\ OrderIndependent)
  /\ [][DisjointWrites]_vars

\* A radial call that scanned the cells in an order other than the code's
\* (its first bucket is not the code's first bucket) has returned a mask
\* that shows one cell of a two-cell bucket and hides the other.
C10_Witness ==
  /\ pc = "done"
  /\ Engine(entry) = "radial"
  /\ Len(rays) >= 2
  /\ rays[1].direction #
       RaysOf(dem, rows, cols, observer_rc, observer_height_m, cell_size_m,
              curvature_enabled)[1].direction
  /\ \E i \in 1 .. Len(rays) :
       /\ Len(rays[i].entries) = 2
       /\ visibility[<<rays[i].entries[1].r, rays[i].entries[1].c>>]
       /\ ~visibility[<<rays[i].entries[2].r, rays[i].entries[2].c>>]

====
